---- MODULE Spec2Model ----
(***************************************************************************)
(* Model of the auto-apply session engine of server/autoApply.js: the     *)
(* /start and /stop handlers, the background task startAutoApplyProcess   *)
(* with its two job-board runs, and the store helpers they call.  Every   *)
(* store call (updateOne / findOne) and every browser operation is one    *)
(* atomic step of the task; the handlers interleave between those steps.  *)
(* Log messages are kept without their interpolated job title / company.  *)
(***************************************************************************)
EXTENDS Integers, Sequences, FiniteSets, TLC

\* ------------------------------------------------------------------ bounds
\* listings the job boards return, summed over all searches
MaxListings == 2

\* ids the store hands out; a task addresses no document but its own _id
SessionIds == {1}

\* ------------------------------------------------------------- input sets
Users == {"u1", "u2"}

\* an optional value: absent (undefined) or present
None == <<>>
Some(v) == <<v>>

\* company names are sequences of characters so that case and containment
\* are computed, not assumed
BadCorp == <<"B", "a">>
GoodCorp == <<"a", "b">>

Listings ==
    { [url |-> "u1", company |-> BadCorp],
      [url |-> "u2", company |-> GoodCorp] }

\* request bodies of /start: every well-formed combination, and one body
\* for each way jobTitles or locations can be missing or empty
TitleInputs == {Some(<<"t1">>)}
ExcludeInputs == {None, Some(<<BadCorp>>), Some(<< <<"x">>, <<"A", "B">> >>)}
Body(jt, loc, ex) == [jobTitles |-> jt, locations |-> loc, excludeCompanies |-> ex]
StartBodies ==
    {Body(jt, Some(<<"l1">>), ex) : jt \in TitleInputs, ex \in ExcludeInputs}
    \cup {Body(None, Some(<<"l1">>), None), Body(Some(<<>>), Some(<<"l1">>), None),
          Body(Some(<<"t1">>), None, None), Body(Some(<<"t1">>), Some(<<>>), None)}

Boards == <<"LinkedIn", "Indeed">>

VARIABLES
    sessions,   \* collection autoApplySessions: session id -> document
    tasks,      \* session id -> state of its startAutoApplyProcess call
    profiles,   \* users that have a document in collection profiles
    response,   \* the last HTTP response sent to a caller of the routes
    ops,        \* session id -> browser operations the task has begun
    listed,     \* listings returned by the boards so far
    client      \* the page JobSearch of one signed-in user

vars == <<sessions, tasks, profiles, response, ops, listed, client>>

\* ------------------------------------------------------- pure functions
Lower(c) ==
    CASE c = "A" -> "a"
      [] c = "B" -> "b"
      [] OTHER -> c

toLowerCase(s) == [i \in DOMAIN s |-> Lower(s[i])]

includes(s, sub) ==
    \E off \in 0..(Len(s) - Len(sub)) :
        SubSeq(s, off + 1, off + Len(sub)) = sub

isExcludedCaseSensitive(excludeCompanies, job) ==
    /\ excludeCompanies # None
    /\ \E k \in DOMAIN excludeCompanies[1] :
          includes(job.company, excludeCompanies[1][k])

\* session.excludeCompanies && session.excludeCompanies.some(company =>
\*     job.company.toLowerCase().includes(company.toLowerCase()))
isExcluded(excludeCompanies, job) ==
    /\ excludeCompanies # None
    /\ \E k \in DOMAIN excludeCompanies[1] :
          includes(toLowerCase(job.company), toLowerCase(excludeCompanies[1][k]))

Log(message, type) == [message |-> message, type |-> type]

\* lastUpdateTime is kept relative to the document's latest write: "latest"
\* when that write set it to new Date(), "earlier" when that write left the
\* field as it was.
pushLogSet(doc, message, type) ==
    [doc EXCEPT !.logs = <<Log(message, type)>>, !.lastUpdateTime = "earlier"]

\* updateOne with a $push of one log entry and nothing else
pushLog(doc, message, type) ==
    [doc EXCEPT !.logs = Append(@, Log(message, type)),
                !.lastUpdateTime = "earlier"]

\* $push of one log entry, $set lastUpdateTime
updateSessionLog(doc, message, type) ==
    [pushLog(doc, message, type) EXCEPT !.lastUpdateTime = "latest"]

\* updateOne with an $inc of one counter and nothing else
incCounter(doc, outcome) ==
    IF outcome = "applied"
    THEN [doc EXCEPT !.applicationsSubmitted = @ + 1, !.lastUpdateTime = "earlier"]
    ELSE [doc EXCEPT !.applicationsSkipped = @ + 1, !.lastUpdateTime = "earlier"]

\* $set status 'error', $push the error log entry, in one updateOne
updateSessionErrorReplacing(doc, errorMessage) ==
    [doc EXCEPT !.status = "error",
                !.logs = Append(@, Log(errorMessage, "error")),
                !.jobTitles = <<>>, !.locations = <<>>,
                !.excludeCompanies = None, !.lastUpdateTime = "latest"]

updateSessionError(doc, errorMessage) ==
    [pushLog(doc, errorMessage, "error") EXCEPT !.status = "error",
                                                !.lastUpdateTime = "latest"]

\* jobListings.filter(job => !existingJobUrls.includes(job.url))
newJobsOf(doc, jobListings) ==
    SelectSeq(jobListings,
              LAMBDA job : \A i \in DOMAIN doc.jobs : doc.jobs[i].url # job.url)

withStatus(jobs, board) ==
    [i \in DOMAIN jobs |->
        [url |-> jobs[i].url, company |-> jobs[i].company,
         source |-> board, status |-> "found"]]

appendJobsIncOne(doc, jobsWithStatus) ==
    [doc EXCEPT !.jobs = @ \o jobsWithStatus,
                !.jobsFound = @ + 1, !.lastUpdateTime = "latest"]

\* $push jobs $each, $inc jobsFound, $set lastUpdateTime, in one updateOne
appendJobs(doc, jobsWithStatus) ==
    [doc EXCEPT !.jobs = @ \o jobsWithStatus,
                !.jobsFound = @ + Len(jobsWithStatus),
                !.lastUpdateTime = "latest"]

\* updateOne({'jobs.url': jobUrl}, {$set: {'jobs.$.status': status}}):
\* the positional operator addresses the first matching array element
updateJobStatus(doc, jobUrl, status) ==
    LET hits == {i \in DOMAIN doc.jobs : doc.jobs[i].url = jobUrl}
    IN  IF hits = {} THEN doc
        ELSE LET first == CHOOSE i \in hits : \A j \in hits : i <= j
             IN  [doc EXCEPT !.jobs[first].status = status,
                             !.lastUpdateTime = "latest"]

stopUpdateAnyStatus(doc, userId) ==
    IF doc.userId = userId
    THEN [pushLog(doc, "Auto-apply session stopped by user", "info")
             EXCEPT !.status = "stopped", !.lastUpdateTime = "latest"]
    ELSE doc

\* updateOne({_id, userId, status: 'running'},
\*           {$set status and lastUpdateTime, $push logs})
stopUpdate(doc, userId) ==
    IF doc.userId = userId /\ doc.status = "running"
    THEN [pushLog(doc, "Auto-apply session stopped by user", "info")
             EXCEPT !.status = "stopped", !.lastUpdateTime = "latest"]
    ELSE doc

isSessionStopped(doc) == doc.status # "running"

\* ------------------------------------------------------------------ state
\* find({ userId }).sort({ startTime: -1 }).toArray(): ids are handed out
\* in insertion order, so the newest document has the largest id
RECURSIVE findSessions(_, _)
findSessions(coll, userId) ==
    IF coll = <<>> THEN <<>>
    ELSE LET n == Len(coll)
             older == findSessions(SubSeq(coll, 1, n - 1), userId)
         IN  IF coll[n].userId = userId
             THEN <<[_id |-> n, doc |-> coll[n]]>> \o older
             ELSE older

\* what a response carries: the HTTP status, and of its JSON body the fields
\* sessionId and error and the session documents
NoResponse == [code |-> 0, sessionId |-> 0, error |-> "", sessions |-> <<>>]

NewTask ==
    [pc |-> "init_log", board |-> 1, session |-> None, browser |-> "none",
     page |-> <<"none", "none">>, ti |-> 1, li |-> 1, jobListings |-> <<>>,
     newJobs |-> <<>>, ji |-> 1, outcome |-> "none"]

\* ------------------------------------------------ the page (JobSearch)
\* The page of one signed-in user. Every request of the page is answered by
\* the route's query at the time it is sent; the answers are in flight until
\* the page's continuation runs, in any order.
PageUser == "u1"
TimerIds == {1, 2}
MaxInFlight == 2
MaxPolls == 3

NoClient ==
    [activeSession |-> None,      \* useState: the session shown as active
     pollingIntervalRef |-> 0,    \* useRef: id of the interval, 0 for null
     timers |-> {},               \* intervals set and not cleared
     inflight |-> <<>>,           \* answers not yet handled
     polls |-> 0,                 \* status requests sent
     observed |-> FALSE]          \* a status answer showed a status other
                                  \* than running

\* of the documents of an answer, the fields the page's polling reads
View(found) ==
    [i \in DOMAIN found |->
        [_id |-> found[i]._id, status |-> found[i].doc.status]]

Answer(c, kind, ok, found) ==
    [c EXCEPT !.inflight = Append(@, [kind |-> kind, ok |-> ok,
                                      sessions |-> View(found)])]

Handled(c, i) ==
    [c EXCEPT !.inflight = SubSeq(@, 1, i - 1) \o SubSeq(@, i + 1, Len(@))]

clearInterval(c, id) == [c EXCEPT !.timers = {t \in @ : t.id # id}]

\* startPolling(sessionId): clear the interval of the ref, set a new one
startPolling(c, sessionId) ==
    LET cleared == IF c.pollingIntervalRef # 0
                   THEN clearInterval(c, c.pollingIntervalRef)
                   ELSE c
        free == TimerIds \ {t.id : t \in cleared.timers}
        id == CHOOSE i \in free : \A j \in free : i <= j
    IN  [cleared EXCEPT !.timers = @ \cup {[id |-> id, sessionId |-> sessionId]},
                        !.pollingIntervalRef = id]

\* useEffect(..., [activeSession])
effect(c) ==
    IF c.activeSession # None /\ c.activeSession[1].status = "running"
    THEN startPolling(c, c.activeSession[1]._id)
    ELSE IF c.pollingIntervalRef # 0
         THEN [clearInterval(c, c.pollingIntervalRef)
                  EXCEPT !.pollingIntervalRef = 0]
         ELSE c

\* setActiveSession(value), the render and the effect; null after null is
\* no change of state
setActiveSession(c, value) ==
    IF value = None /\ c.activeSession = None
    THEN c
    ELSE effect([c EXCEPT !.activeSession = value])

Init ==
    /\ sessions = <<>>
    /\ tasks = <<>>
    /\ profiles = {"u1"}
    /\ response = NoResponse
    /\ ops = <<>>
    /\ listed = 0
    /\ client = NoClient

Terminal == {"stopped", "completed", "error"}

\* the stop request of router.post('/stop') has been persisted
StopPersisted(doc) ==
    \E i \in DOMAIN doc.logs :
        doc.logs[i].message = "Auto-apply session stopped by user"

\* --------------------------------------------------------------- handlers
\* the document POST /start inserts
NewSession(user, jobTitles, locations, excludeCompanies) ==
    [userId |-> user,
     status |-> "running",
     jobTitles |-> jobTitles[1],
     locations |-> locations[1],
     salaryRange |-> None,
     excludeCompanies |-> excludeCompanies,
     includeRemote |-> None,
     jobsFound |-> 0,
     applicationsSubmitted |-> 0,
     applicationsSkipped |-> 0,
     startTime |-> "created",
     lastUpdateTime |-> "latest",
     logs |-> <<Log("Auto-apply session started", "info")>>,
     jobs |-> <<>>]

CriteriaRequired ==
    [code |-> 400, sessionId |-> 0, error |-> "Job titles and locations are required",
     sessions |-> <<>>]
Started(sessionId) ==
    [code |-> 200, sessionId |-> sessionId, error |-> "", sessions |-> <<>>]

\* insertOne, the task started without await, then the response
insertSession(user, jobTitles, locations, excludeCompanies) ==
    /\ sessions' = Append(sessions,
                          NewSession(user, jobTitles, locations, excludeCompanies))
    /\ tasks' = Append(tasks, NewTask)
    /\ ops' = Append(ops, <<>>)
    /\ response' = Started(Len(sessions) + 1)
    /\ UNCHANGED <<profiles, listed, client>>

\* lines 22-58, in a run in which the store hands out the ids of SessionIds
Accept(user, jobTitles, locations, excludeCompanies) ==
    /\ Len(sessions) + 1 \in SessionIds
    /\ insertSession(user, jobTitles, locations, excludeCompanies)

Reject ==
    /\ response' = CriteriaRequired
    /\ UNCHANGED <<sessions, tasks, profiles, ops, listed, client>>

StartUncheckedLocations(user, jobTitles, locations, excludeCompanies) ==
    IF \/ jobTitles = None \/ Len(jobTitles[1]) = 0
       \/ locations = None
    THEN Reject
    ELSE Accept(user, jobTitles, locations, excludeCompanies)

StartAwaitsProfile(user, jobTitles, locations, excludeCompanies) ==
    IF \/ jobTitles = None \/ Len(jobTitles[1]) = 0
       \/ locations = None \/ Len(locations[1]) = 0
       \/ user \notin profiles
    THEN Reject
    ELSE Accept(user, jobTitles, locations, excludeCompanies)

\* router.post('/start')
Start(user, jobTitles, locations, excludeCompanies) ==
    IF \/ jobTitles = None \/ Len(jobTitles[1]) = 0
       \/ locations = None \/ Len(locations[1]) = 0
    THEN Reject
    ELSE Accept(user, jobTitles, locations, excludeCompanies)

Stopped == [code |-> 200, sessionId |-> 0, error |-> "", sessions |-> <<>>]
NotStopped ==
    [code |-> 400, sessionId |-> 0, sessions |-> <<>>,
     error |-> "Failed to stop auto-apply session or session is not running"]

\* router.post('/stop/:sessionId')
Stop(user, sid) ==
    LET matched == sid \in DOMAIN sessions
        after == IF matched THEN stopUpdate(sessions[sid], user) ELSE None
        modified == matched /\ after # sessions[sid]
    IN  /\ sessions' = IF modified THEN [sessions EXCEPT ![sid] = after]
                       ELSE sessions
        /\ response' = IF modified THEN Stopped ELSE NotStopped
        /\ UNCHANGED <<tasks, profiles, ops, listed, client>>

findSessionOfAnyone(coll, sid, userId) ==
    IF sid \in DOMAIN coll
    THEN <<[_id |-> sid, doc |-> coll[sid]]>>
    ELSE <<>>

\* findOne({ _id, userId }): the document, if there is one
findSession(coll, sid, userId) ==
    IF sid \in DOMAIN coll /\ coll[sid].userId = userId
    THEN <<[_id |-> sid, doc |-> coll[sid]]>>
    ELSE <<>>

NotFound ==
    [code |-> 404, sessionId |-> 0, error |-> "Auto-apply session not found",
     sessions |-> <<>>]

\* router.get('/status/:sessionId')
Status(user, sid) ==
    LET session == findSession(sessions, sid, user)
    IN  /\ response' = IF session = <<>>
                       THEN NotFound
                       ELSE [code |-> 200, sessionId |-> sid, error |-> "",
                             sessions |-> session]
        /\ UNCHANGED <<sessions, tasks, profiles, ops, listed, client>>

\* router.get('/sessions')
List(user) ==
    /\ response' = [code |-> 200, sessionId |-> 0, error |-> "",
                    sessions |-> findSessions(sessions, user)]
    /\ UNCHANGED <<sessions, tasks, profiles, ops, listed, client>>

\* ------------------------------------------------- the background task
Doc(sid) == sessions[sid]
Task(sid) == tasks[sid]
At(sid, pc) == sid \in DOMAIN tasks /\ tasks[sid].pc = pc
BoardName(sid) == Boards[tasks[sid].board]

SetTask(sid, t) == tasks' = [tasks EXCEPT ![sid] = t]
SetDocsOfOwner(sid, doc) ==
    sessions' = [i \in DOMAIN sessions |->
                    IF sessions[i].userId = sessions[sid].userId
                    THEN doc ELSE sessions[i]]

\* updateOne({ _id: new ObjectId(sessionId) }, ...)
SetDoc(sid, doc) == sessions' = [sessions EXCEPT ![sid] = doc]

\* a browser operation begun by the task, and whether the stop request had
\* been persisted when it began
\* an operation on a board's page, with the loop variables jobTitle and
\* location it was made under (none yet when the page is opened)
Op(sid, op, job, found, result) ==
    LET t == Task(sid)
        looping == op # "open"
    IN  [board |-> BoardName(sid), op |-> op, job |-> job, found |-> found,
         result |-> result, afterStop |-> StopPersisted(Doc(sid)),
         jobTitle |-> IF looping THEN Some(t.session[1].jobTitles[t.ti]) ELSE None,
         location |-> IF looping THEN Some(t.session[1].locations[t.li]) ELSE None]
Record(sid, entry) == ops' = [ops EXCEPT ![sid] = Append(@, entry)]

\* control leaves searchLinkedInJobs / searchIndeedJobs
BoardReturn(t) ==
    IF t.board = 1
    THEN [t EXCEPT !.board = 2, !.pc = "start_log", !.ti = 1, !.li = 1,
                   !.ji = 1, !.jobListings = <<>>, !.newJobs = <<>>,
                   !.outcome = "none"]
    ELSE [t EXCEPT !.pc = "complete", !.ti = 1, !.li = 1, !.ji = 1,
                   !.jobListings = <<>>, !.newJobs = <<>>, !.outcome = "none"]

\* the next iteration of the title x location loops
NextPairLocationsOuter(t) ==
    IF t.ti < Len(t.session[1].jobTitles)
    THEN [t EXCEPT !.ti = @ + 1, !.pc = "pair_check", !.ji = 1,
                   !.jobListings = <<>>, !.newJobs = <<>>]
    ELSE IF t.li < Len(t.session[1].locations)
         THEN [t EXCEPT !.li = @ + 1, !.ti = 1, !.pc = "pair_check", !.ji = 1,
                        !.jobListings = <<>>, !.newJobs = <<>>]
         ELSE [t EXCEPT !.ti = Len(t.session[1].jobTitles) + 1, !.li = 1,
                        !.pc = "pair_check", !.ji = 1,
                        !.jobListings = <<>>, !.newJobs = <<>>]

NextPair(t) ==
    IF t.li < Len(t.session[1].locations)
    THEN [t EXCEPT !.li = @ + 1, !.pc = "pair_check", !.ji = 1,
                   !.jobListings = <<>>, !.newJobs = <<>>]
    ELSE [t EXCEPT !.ti = @ + 1, !.li = 1, !.pc = "pair_check", !.ji = 1,
                   !.jobListings = <<>>, !.newJobs = <<>>]

\* lines 329-341: $push of the 'Initializing browser' entry
InitLog(sid) ==
    /\ At(sid, "init_log")
    /\ SetDoc(sid, pushLog(Doc(sid), "Initializing browser for job search", "info"))
    /\ SetTask(sid, [Task(sid) EXCEPT !.pc = "read_session"])
    /\ UNCHANGED <<profiles, response, ops, listed, client>>

ReadSessionAnyStatus(sid) ==
    /\ At(sid, "read_session")
    /\ SetTask(sid, [Task(sid) EXCEPT !.pc = "read_profile",
                                      !.session = Some(Doc(sid))])
    /\ UNCHANGED <<sessions, profiles, response, ops, listed, client>>

\* lines 344-348: read the session, return unless it is running
ReadSession(sid) ==
    /\ At(sid, "read_session")
    /\ SetTask(sid, IF Doc(sid).status # "running"
                    THEN [Task(sid) EXCEPT !.pc = "done"]
                    ELSE [Task(sid) EXCEPT !.pc = "read_profile",
                                           !.session = Some(Doc(sid))])
    /\ UNCHANGED <<sessions, profiles, response, ops, listed, client>>

ReadProfileUnchecked(sid) ==
    /\ At(sid, "read_profile")
    /\ SetTask(sid, [Task(sid) EXCEPT !.pc = "launch"])
    /\ UNCHANGED <<sessions, profiles, response, ops, listed, client>>

\* lines 351-353: look the owner's profile up
ReadProfile(sid) ==
    /\ At(sid, "read_profile")
    /\ SetTask(sid, IF Task(sid).session[1].userId \in profiles
                    THEN [Task(sid) EXCEPT !.pc = "launch"]
                    ELSE [Task(sid) EXCEPT !.pc = "profile_error"])
    /\ UNCHANGED <<sessions, profiles, response, ops, listed, client>>

ProfileNotFound ==
    "User profile not found. Please complete your profile before auto-applying."

\* lines 354-355
ProfileError(sid) ==
    /\ At(sid, "profile_error")
    /\ SetDoc(sid, updateSessionError(Doc(sid), ProfileNotFound))
    /\ SetTask(sid, [Task(sid) EXCEPT !.pc = "done"])
    /\ UNCHANGED <<profiles, response, ops, listed, client>>

\* lines 359-364: puppeteer.launch resolves or rejects
Launch(sid) ==
    /\ At(sid, "launch")
    /\ \E ok \in BOOLEAN :
          SetTask(sid, IF ok
                       THEN [Task(sid) EXCEPT !.pc = "start_log", !.browser = "open"]
                       ELSE [Task(sid) EXCEPT !.pc = "outer_catch"])
    /\ UNCHANGED <<sessions, profiles, response, ops, listed, client>>

\* lines 405 / 543
StartLog(sid) ==
    /\ At(sid, "start_log")
    /\ SetDoc(sid, updateSessionLog(Doc(sid),
                  IF Task(sid).board = 1 THEN "Starting LinkedIn job search"
                  ELSE "Starting Indeed job search", "info"))
    /\ SetTask(sid, [Task(sid) EXCEPT !.pc = "open"])
    /\ UNCHANGED <<profiles, response, ops, listed, client>>

\* lines 407-410 / 545-548: browser.newPage and page.goto of the board's
\* home page; a rejection is caught by the board's own catch
OpenPage(sid) ==
    /\ At(sid, "open")
    /\ \E ok \in BOOLEAN :
          /\ Record(sid, Op(sid, "open", None, <<>>, IF ok THEN "ok" ELSE "throw"))
          /\ SetTask(sid, [Task(sid) EXCEPT
                             !.pc = IF ok THEN "pair_check" ELSE "board_catch",
                             !.page[Task(sid).board] = "open"])
    /\ UNCHANGED <<sessions, profiles, response, listed, client>>

\* lines 413-418 / 551-556: loop test, then isSessionStopped
PairCheck(sid) ==
    /\ At(sid, "pair_check")
    /\ LET t == Task(sid)
       IN  SetTask(sid,
              IF t.ti > Len(t.session[1].jobTitles)
              THEN [t EXCEPT !.pc = "page_close"]
              ELSE IF isSessionStopped(Doc(sid))
                   THEN [t EXCEPT !.pc = "stopped_log"]
                   ELSE [t EXCEPT !.pc = "search_log"])
    /\ UNCHANGED <<sessions, profiles, response, ops, listed, client>>

\* lines 416-417 / 554-555
StoppedLog(sid) ==
    /\ At(sid, "stopped_log")
    /\ SetDoc(sid, updateSessionLog(Doc(sid), "Session stopped by user", "info"))
    /\ SetTask(sid, BoardReturn(Task(sid)))
    /\ UNCHANGED <<profiles, response, ops, listed, client>>

\* lines 420 / 558
SearchLog(sid) ==
    /\ At(sid, "search_log")
    /\ SetDoc(sid, updateSessionLog(Doc(sid), "Searching", "info"))
    /\ SetTask(sid, [Task(sid) EXCEPT !.pc = "search"])
    /\ UNCHANGED <<profiles, response, ops, listed, client>>

\* result lists a search may scrape: any listings, repeats included
ResultLists(n) == UNION {[1..k -> Listings] : k \in 0..n}

\* lines 423-464 / 561-601: fill the search form, wait for and scrape the
\* results; a rejection is caught by the board's own catch
Search(sid) ==
    /\ At(sid, "search")
    /\ \/ \E found \in ResultLists(MaxListings - listed) :
            /\ Record(sid, Op(sid, "search", None, found, "ok"))
            /\ SetTask(sid, [Task(sid) EXCEPT !.pc = "jobs_read",
                                              !.jobListings = found])
            /\ listed' = listed + Len(found)
       \/ /\ Record(sid, Op(sid, "search", None, <<>>, "throw"))
          /\ SetTask(sid, [Task(sid) EXCEPT !.pc = "board_catch"])
          /\ listed' = listed
    /\ UNCHANGED <<sessions, profiles, response, client>>

\* lines 820-826: updateSessionWithJobs reads the session and filters
JobsRead(sid) ==
    /\ At(sid, "jobs_read")
    /\ LET t == Task(sid)
           newJobs == newJobsOf(Doc(sid), t.jobListings)
       IN  SetTask(sid, IF Len(newJobs) > 0
                        THEN [t EXCEPT !.pc = "jobs_write", !.newJobs = newJobs]
                        ELSE [t EXCEPT !.pc = "job_check", !.ji = 1])
    /\ UNCHANGED <<sessions, profiles, response, ops, listed, client>>

\* lines 828-848
JobsWrite(sid) ==
    /\ At(sid, "jobs_write")
    /\ SetDoc(sid, appendJobs(Doc(sid),
                              withStatus(Task(sid).newJobs, BoardName(sid))))
    /\ SetTask(sid, [Task(sid) EXCEPT !.pc = "found_log"])
    /\ UNCHANGED <<profiles, response, ops, listed, client>>

\* line 850
FoundLog(sid) ==
    /\ At(sid, "found_log")
    /\ SetDoc(sid, updateSessionLog(Doc(sid), "Found new jobs", "info"))
    /\ SetTask(sid, [Task(sid) EXCEPT !.pc = "job_check", !.ji = 1,
                                      !.newJobs = <<>>])
    /\ UNCHANGED <<profiles, response, ops, listed, client>>

\* lines 470-473 / 607-610: loop test, then isSessionStopped
JobCheck(sid) ==
    /\ At(sid, "job_check")
    /\ LET t == Task(sid)
       IN  SetTask(sid,
              IF t.ji > Len(t.jobListings)
              THEN NextPair(t)
              ELSE IF isSessionStopped(Doc(sid))
                   THEN BoardReturn(t)
                   ELSE [t EXCEPT !.pc = "exclude"])
    /\ UNCHANGED <<sessions, profiles, response, ops, listed, client>>

\* lines 476-482 / 613-619: the exclusion filter and its log entry
Exclude(sid) ==
    /\ At(sid, "exclude")
    /\ LET t == Task(sid)
           job == t.jobListings[t.ji]
       IN  IF isExcluded(t.session[1].excludeCompanies, job)
           THEN /\ SetDoc(sid, updateSessionLog(Doc(sid),
                                  "Skipping job at excluded company", "info"))
                /\ SetTask(sid, [t EXCEPT !.ji = @ + 1, !.pc = "job_check"])
           ELSE /\ SetDoc(sid, updateSessionLog(Doc(sid),
                                  "Attempting to apply", "info"))
                /\ SetTask(sid, [t EXCEPT !.pc = "apply"])
    /\ UNCHANGED <<profiles, response, ops, listed, client>>

ApplyOutcomes == {"applied", "skipped", "error"}

\* lines 486-497 / 623-636: page.goto(job.url), look for the apply button,
\* fill the form; "skipped" is a missing button, "error" a rejection
Apply(sid) ==
    /\ At(sid, "apply")
    /\ \E outcome \in ApplyOutcomes :
          /\ Record(sid, Op(sid, "apply",
                            Some(Task(sid).jobListings[Task(sid).ji]),
                            <<>>, outcome))
          /\ SetTask(sid, [Task(sid) EXCEPT !.pc = "job_status",
                                            !.outcome = outcome])
    /\ UNCHANGED <<sessions, profiles, response, listed, client>>

\* lines 500 / 509 / 520 (639 / 648 / 659)
JobStatus(sid) ==
    /\ At(sid, "job_status")
    /\ LET t == Task(sid)
       IN  SetDoc(sid, updateJobStatus(Doc(sid), t.jobListings[t.ji].url,
                                       t.outcome))
    /\ SetTask(sid, [Task(sid) EXCEPT !.pc = "outcome_log"])
    /\ UNCHANGED <<profiles, response, ops, listed, client>>

OutcomeMessage(outcome) ==
    CASE outcome = "applied" -> Log("Successfully applied", "success")
      [] outcome = "skipped" -> Log("Skipped - no apply button", "warning")
      [] outcome = "error" -> Log("Error applying", "error")

\* lines 501 / 510 / 521 (640 / 649 / 660)
OutcomeLog(sid) ==
    /\ At(sid, "outcome_log")
    /\ LET entry == OutcomeMessage(Task(sid).outcome)
       IN  SetDoc(sid, updateSessionLog(Doc(sid), entry.message, entry.type))
    /\ SetTask(sid, [Task(sid) EXCEPT !.pc = "count"])
    /\ UNCHANGED <<profiles, response, ops, listed, client>>

CountAlwaysSubmitted(sid) ==
    /\ At(sid, "count")
    /\ SetDoc(sid, incCounter(Doc(sid), "applied"))
    /\ SetTask(sid, [Task(sid) EXCEPT !.pc = "job_check", !.ji = @ + 1,
                                      !.outcome = "none"])
    /\ UNCHANGED <<profiles, response, ops, listed, client>>

\* lines 504-507 / 513-516 / 524-527: the $inc of one counter
Count(sid) ==
    /\ At(sid, "count")
    /\ SetDoc(sid, incCounter(Doc(sid), Task(sid).outcome))
    /\ SetTask(sid, [Task(sid) EXCEPT !.pc = "job_check", !.ji = @ + 1,
                                      !.outcome = "none"])
    /\ UNCHANGED <<profiles, response, ops, listed, client>>

\* lines 533 / 672
PageClose(sid) ==
    /\ At(sid, "page_close")
    /\ SetTask(sid, BoardReturn([Task(sid) EXCEPT
                                    !.page[Task(sid).board] = "closed"]))
    /\ UNCHANGED <<sessions, profiles, response, ops, listed, client>>

BoardCatchSetsError(sid) ==
    /\ At(sid, "board_catch")
    /\ SetDoc(sid, updateSessionError(Doc(sid), "Error in job search"))
    /\ SetTask(sid, BoardReturn(Task(sid)))
    /\ UNCHANGED <<profiles, response, ops, listed, client>>

BoardCatchRethrows(sid) ==
    /\ At(sid, "board_catch")
    /\ SetDoc(sid, updateSessionLog(Doc(sid), "Error in job search", "error"))
    /\ SetTask(sid, [Task(sid) EXCEPT !.pc = "outer_catch"])
    /\ UNCHANGED <<profiles, response, ops, listed, client>>

\* lines 534-537 / 673-676
BoardCatch(sid) ==
    /\ At(sid, "board_catch")
    /\ SetDoc(sid, updateSessionLog(Doc(sid), "Error in job search", "error"))
    /\ SetTask(sid, BoardReturn(Task(sid)))
    /\ UNCHANGED <<profiles, response, ops, listed, client>>

\* lines 374-389: the completion write
Complete(sid) ==
    /\ At(sid, "complete")
    /\ SetDoc(sid, [pushLog(Doc(sid), "Auto-apply session completed", "info")
                       EXCEPT !.status = "completed",
                              !.lastUpdateTime = "latest"])
    /\ SetTask(sid, [Task(sid) EXCEPT !.pc = "close_browser"])
    /\ UNCHANGED <<profiles, response, ops, listed, client>>

CloseBrowserSkipped(sid) ==
    /\ At(sid, "close_browser")
    /\ SetTask(sid, [Task(sid) EXCEPT !.pc = "done"])
    /\ UNCHANGED <<sessions, profiles, response, ops, listed, client>>

\* lines 390-393
CloseBrowser(sid) ==
    /\ At(sid, "close_browser")
    /\ SetTask(sid, [Task(sid) EXCEPT !.pc = "done", !.browser = "closed"])
    /\ UNCHANGED <<sessions, profiles, response, ops, listed, client>>

\* lines 394-399
OuterCatch(sid) ==
    /\ At(sid, "outer_catch")
    /\ SetDoc(sid, updateSessionError(Doc(sid), "Error in auto-apply process"))
    /\ SetTask(sid, [Task(sid) EXCEPT !.pc = "done"])
    /\ UNCHANGED <<profiles, response, ops, listed, client>>

\* ------------------------------------------------------------ specification
\* one step of the call startAutoApplyProcess(sid, userId)
TaskStep(sid) ==
    \/ InitLog(sid)
    \/ ReadSession(sid)
    \/ ReadProfile(sid)
    \/ ProfileError(sid)
    \/ Launch(sid)
    \/ StartLog(sid)
    \/ OpenPage(sid)
    \/ PairCheck(sid)
    \/ StoppedLog(sid)
    \/ SearchLog(sid)
    \/ Search(sid)
    \/ JobsRead(sid)
    \/ JobsWrite(sid)
    \/ FoundLog(sid)
    \/ JobCheck(sid)
    \/ Exclude(sid)
    \/ Apply(sid)
    \/ JobStatus(sid)
    \/ OutcomeLog(sid)
    \/ Count(sid)
    \/ PageClose(sid)
    \/ BoardCatch(sid)
    \/ Complete(sid)
    \/ CloseBrowser(sid)
    \/ OuterCatch(sid)

Next ==
    \/ \E u \in Users, body \in StartBodies :
          Start(u, body.jobTitles, body.locations, body.excludeCompanies)
    \/ \E u \in Users, sid \in SessionIds : Stop(u, sid)
    \/ \E sid \in SessionIds : TaskStep(sid)

Spec == Init /\ [][Next]_vars

\* The handlers of all four routes against a task whose boards hold one
\* listing.
InitApi ==
    /\ sessions = <<>>
    /\ tasks = <<>>
    /\ profiles = {"u1"}
    /\ response = NoResponse
    /\ ops = <<>>
    /\ listed = MaxListings - 1
    /\ client = NoClient

NextApi ==
    \/ Next
    \/ \E u \in Users, sid \in SessionIds : Status(u, sid)
    \/ \E u \in Users : List(u)

SpecApi == InitApi /\ [][NextApi]_vars

\* The task under the scheduling of the event loop: every awaited call
\* settles, and the continuation of a settled call runs.
SpecLive ==
    InitApi /\ [][Next]_vars /\ WF_vars(\E sid \in SessionIds : TaskStep(sid))

\* The task when its awaited calls can reject. Every await of the task is a
\* promise of the store driver or of the browser; a rejection continues in the
\* innermost enclosing catch, and outside every try it rejects the promise
\* of startAutoApplyProcess, which POST /start neither awaits nor catches.
InOuterTry == {"init_log", "read_session", "read_profile", "profile_error"}
InBoardTry ==
    {"start_log", "pair_check", "stopped_log", "search_log", "jobs_read",
     "jobs_write", "found_log", "job_check", "exclude"}
InApplyTry == {"job_status", "outcome_log", "count"}
InBrowserTry == {"board_catch", "complete"}

\* the task awaits a store call at its position
AwaitsStore(t) ==
    \/ t.pc \in (InOuterTry \cup InBoardTry \cup InApplyTry \cup InBrowserTry)
                   \ {"pair_check", "job_check"}
    \/ t.pc = "pair_check" /\ t.ti <= Len(t.session[1].jobTitles)
    \/ t.pc = "job_check" /\ t.ji <= Len(t.jobListings)
    \/ t.pc = "outer_catch"

\* where the task continues when that call rejects
Thrown(t) ==
    CASE t.pc \in InOuterTry -> [t EXCEPT !.pc = "outer_catch"]
      [] t.pc \in InBoardTry -> [t EXCEPT !.pc = "board_catch"]
      [] t.pc \in InApplyTry ->
            IF t.outcome = "error"
            THEN [t EXCEPT !.pc = "board_catch"]
            ELSE [t EXCEPT !.pc = "job_status", !.outcome = "error"]
      [] t.pc \in InBrowserTry -> [t EXCEPT !.pc = "finally"]
      [] t.pc = "outer_catch" -> [t EXCEPT !.pc = "rejected"]

\* line 326: connectToDatabase rejects, outside the try
ConnectRejects(sid) ==
    /\ At(sid, "init_log")
    /\ SetTask(sid, [Task(sid) EXCEPT !.pc = "rejected"])
    /\ UNCHANGED <<sessions, profiles, response, ops, listed, client>>

\* an updateOne or findOne of the task rejects
StoreRejects(sid) ==
    /\ sid \in DOMAIN tasks
    /\ AwaitsStore(Task(sid))
    /\ SetTask(sid, Thrown(Task(sid)))
    /\ UNCHANGED <<sessions, profiles, response, ops, listed, client>>

\* lines 390-393 on the exceptional path: browser.close resolves or rejects,
\* then the outer catch. A close that rejected leaves the browser in a state
\* the task does not know: "close_rejected".
Finally(sid) ==
    /\ At(sid, "finally")
    /\ \E ok \in BOOLEAN :
          SetTask(sid, [Task(sid) EXCEPT
                           !.pc = "outer_catch",
                           !.browser = IF ok THEN "closed"
                                             ELSE "close_rejected"])
    /\ UNCHANGED <<sessions, profiles, response, ops, listed, client>>

\* lines 390-393 after the completion write: browser.close rejects
CloseBrowserRejects(sid) ==
    /\ At(sid, "close_browser")
    /\ SetTask(sid, [Task(sid) EXCEPT !.pc = "outer_catch",
                                      !.browser = "close_rejected"])
    /\ UNCHANGED <<sessions, profiles, response, ops, listed, client>>

NextFail ==
    \/ Next
    \/ \E sid \in SessionIds : ConnectRejects(sid)
    \/ \E sid \in SessionIds : StoreRejects(sid)
    \/ \E sid \in SessionIds : Finally(sid)
    \/ \E sid \in SessionIds : CloseBrowserRejects(sid)

SpecFail == InitApi /\ [][NextFail]_vars

\* The page against the routes. Of the task the steps up to the browser
\* launch are taken: the page reads nothing but the status, which the stop
\* route, a missing profile or a failed launch make other than running.
\* getAutoApplySessions() is sent and answered
loadSessions(c) == Answer(c, "list", TRUE, findSessions(sessions, PageUser))

\* loadSessions() of the mount effect or of startNewSession
LoadSessions ==
    /\ Len(client.inflight) < MaxInFlight
    /\ client' = loadSessions(client)
    /\ UNCHANGED <<sessions, tasks, profiles, response, ops, listed>>

\* loadSessions after its await
ReceiveList(i) ==
    /\ i \in DOMAIN client.inflight
    /\ client.inflight[i].kind = "list"
    /\ LET list == client.inflight[i].sessions
           running == {k \in DOMAIN list : list[k].status = "running"}
           c == Handled(client, i)
       IN  client' =
              IF running # {}
              THEN LET k == CHOOSE k \in running : \A j \in running : k <= j
                   IN  setActiveSession(startPolling(c, list[k]._id),
                                        Some(list[k]))
              ELSE setActiveSession(c, None)
    /\ UNCHANGED <<sessions, tasks, profiles, response, ops, listed>>

\* the interval fires: getAutoApplySessionStatus(sessionId) is sent and
\* answered
Tick(id) ==
    /\ Len(client.inflight) < MaxInFlight
    /\ client.polls < MaxPolls
    /\ \E t \in client.timers :
          /\ t.id = id
          /\ LET found == findSession(sessions, t.sessionId, PageUser)
             IN  client' = Answer([client EXCEPT !.polls = @ + 1],
                                  "status", found # <<>>, found)
    /\ UNCHANGED <<sessions, tasks, profiles, response, ops, listed>>

\* the interval's callback after its await
ReceiveStatus(i) ==
    /\ i \in DOMAIN client.inflight
    /\ client.inflight[i].kind = "status"
    /\ LET r == client.inflight[i]
           c == Handled(client, i)
       IN  client' =
              IF ~r.ok THEN c
              ELSE IF r.sessions[1].status # "running"
                   THEN setActiveSession(
                            loadSessions(
                                [clearInterval(c, c.pollingIntervalRef)
                                    EXCEPT !.pollingIntervalRef = 0,
                                           !.observed = TRUE]),
                            Some(r.sessions[1]))
                   ELSE setActiveSession(c, Some(r.sessions[1]))
    /\ UNCHANGED <<sessions, tasks, profiles, response, ops, listed>>

\* stopActiveSession up to its await: the stop route's update
ClickStop ==
    /\ client.activeSession # None
    /\ Len(client.inflight) < MaxInFlight
    /\ LET sid == client.activeSession[1]._id
           after == stopUpdate(sessions[sid], PageUser)
       IN  /\ sessions' = [sessions EXCEPT ![sid] = after]
           /\ client' = Answer(client, "stop", after # sessions[sid], <<>>)
    /\ UNCHANGED <<tasks, profiles, response, ops, listed>>

\* stopActiveSession after its await
ReceiveStop(i) ==
    /\ i \in DOMAIN client.inflight
    /\ client.inflight[i].kind = "stop"
    /\ client' = IF client.inflight[i].ok
                 THEN loadSessions(Handled(client, i))
                 ELSE Handled(client, i)
    /\ UNCHANGED <<sessions, tasks, profiles, response, ops, listed>>

NextPoll ==
    \/ \E u \in Users : Start(u, Some(<<"t1">>), Some(<<"l1">>), None)
    \/ \E u \in Users, sid \in SessionIds : Stop(u, sid)
    \/ \E sid \in SessionIds : InitLog(sid)
    \/ \E sid \in SessionIds : ReadSession(sid)
    \/ \E sid \in SessionIds : ReadProfile(sid)
    \/ \E sid \in SessionIds : ProfileError(sid)
    \/ \E sid \in SessionIds : Launch(sid)
    \/ \E sid \in SessionIds : OuterCatch(sid)
    \/ LoadSessions
    \/ \E i \in 1..MaxInFlight : ReceiveList(i)
    \/ \E id \in TimerIds : Tick(id)
    \/ \E i \in 1..MaxInFlight : ReceiveStatus(i)
    \/ ClickStop
    \/ \E i \in 1..MaxInFlight : ReceiveStop(i)

SpecPoll == Init /\ [][NextPoll]_vars

\* A session with two job titles, so that each board has two
\* (title, location) pairs to search.
TwoTitles == Body(Some(<<"t1", "t2">>), Some(<<"l1">>), None)

NextPairs ==
    \/ \E u \in Users :
          Start(u, TwoTitles.jobTitles, TwoTitles.locations,
                TwoTitles.excludeCompanies)
    \/ \E u \in Users, sid \in SessionIds : Stop(u, sid)
    \/ \E sid \in SessionIds : TaskStep(sid)

SpecPairs == Init /\ [][NextPairs]_vars

\* two sessions of one owner: /start is called twice, and the first session
\* may be stopped while the second runs
TwoSessionIds == {1, 2}

StartOfTwo(user, jobTitles, locations, excludeCompanies) ==
    IF \/ jobTitles = None \/ Len(jobTitles[1]) = 0
       \/ locations = None \/ Len(locations[1]) = 0
    THEN Reject
    ELSE /\ Len(sessions) + 1 \in TwoSessionIds
         /\ insertSession(user, jobTitles, locations, excludeCompanies)

NextTwo ==
    \/ StartOfTwo("u1", Some(<<"t1">>), Some(<<"l1">>), None)
    \/ Stop("u1", 1)
    \/ \E sid \in TwoSessionIds : InitLog(sid)
    \/ \E sid \in TwoSessionIds : ReadSession(sid)
    \/ \E sid \in TwoSessionIds : ReadProfile(sid)
    \/ \E sid \in TwoSessionIds : Launch(sid)
    \/ \E sid \in TwoSessionIds : StartLog(sid)
    \/ \E sid \in TwoSessionIds : OpenPage(sid)
    \/ \E sid \in TwoSessionIds : PairCheck(sid)
    \/ \E sid \in TwoSessionIds : StoppedLog(sid)
    \/ \E sid \in TwoSessionIds : SearchLog(sid)
    \/ \E sid \in TwoSessionIds : Search(sid)
    \/ \E sid \in TwoSessionIds : JobsRead(sid)
    \/ \E sid \in TwoSessionIds : JobsWrite(sid)
    \/ \E sid \in TwoSessionIds : FoundLog(sid)
    \/ \E sid \in TwoSessionIds : JobCheck(sid)
    \/ \E sid \in TwoSessionIds : Exclude(sid)
    \/ \E sid \in TwoSessionIds : Apply(sid)
    \/ \E sid \in TwoSessionIds : JobStatus(sid)
    \/ \E sid \in TwoSessionIds : OutcomeLog(sid)
    \/ \E sid \in TwoSessionIds : Count(sid)
    \/ \E sid \in TwoSessionIds : PageClose(sid)
    \/ \E sid \in TwoSessionIds : BoardCatch(sid)
    \/ \E sid \in TwoSessionIds : Complete(sid)
    \/ \E sid \in TwoSessionIds : CloseBrowser(sid)
    \/ \E sid \in TwoSessionIds : OuterCatch(sid)

SpecTwo == InitApi /\ [][NextTwo]_vars

\* a session of two job titles and two locations
TwoByTwo == Body(Some(<<"t1", "t2">>), Some(<<"l1", "l2">>), Some(<<BadCorp>>))

NextOrder ==
    \/ \E u \in Users :
          Start(u, TwoByTwo.jobTitles, TwoByTwo.locations,
                TwoByTwo.excludeCompanies)
    \/ \E u \in Users, sid \in SessionIds : Stop(u, sid)
    \/ \E sid \in SessionIds : TaskStep(sid)

SpecOrder == InitApi /\ [][NextOrder]_vars

\* ------------------------------------------------------------ properties
Counters(doc) ==
    <<doc.jobsFound, doc.applicationsSubmitted, doc.applicationsSkipped>>

\* C1: a status that is stopped, completed or error never changes again
TerminalStatusNeverChanges ==
    [][\A sid \in DOMAIN sessions :
          sessions[sid].status \in Terminal
              => sessions'[sid].status = sessions[sid].status]_vars

OpsAfterStop(sid) == {i \in DOMAIN ops[sid] : ops[sid][i].afterStop}

\* C2: the task begins at most one browser operation after the stop request
\* has been persisted
AtMostOneOpAfterStop ==
    \A sid \in DOMAIN ops : Cardinality(OpsAfterStop(sid)) <= 1

\* C3: once the status is terminal no step changes logs, jobs or counters
NoMutationAfterTerminal ==
    [][\A sid \in DOMAIN sessions :
          sessions[sid].status \in Terminal
              => /\ sessions'[sid].logs = sessions[sid].logs
                 /\ sessions'[sid].jobs = sessions[sid].jobs
                 /\ Counters(sessions'[sid]) = Counters(sessions[sid])]_vars

\* C4: applicationsSubmitted + applicationsSkipped <= jobsFound in every
\* snapshot
CounterConsistency ==
    \A sid \in DOMAIN sessions :
        sessions[sid].applicationsSubmitted + sessions[sid].applicationsSkipped
            <= sessions[sid].jobsFound

\* C5: no two entries of jobs have the same URL
UniqueJobUrls ==
    \A sid \in DOMAIN sessions :
        \A i, j \in DOMAIN sessions[sid].jobs :
            sessions[sid].jobs[i].url = sessions[sid].jobs[j].url => i = j

\* C6: jobsFound equals the number of entries of jobs in every snapshot
JobsFoundIsJobCount ==
    \A sid \in DOMAIN sessions :
        sessions[sid].jobsFound = Len(sessions[sid].jobs)

\* two jobs were appended by one update and a later search added nothing
JobsAppendedWitness ==
    \E sid \in DOMAIN sessions :
        /\ sessions[sid].jobsFound = 2
        /\ sessions[sid].jobs[1].source = sessions[sid].jobs[2].source
        /\ tasks[sid].pc = "done"

\* upper- and lower-case forms of one letter
CasePairs == {<<"a", "A">>, <<"b", "B">>}
SameLetter(x, y) == x = y \/ <<x, y>> \in CasePairs \/ <<y, x>> \in CasePairs

\* s contains sub at some offset, letter by letter, ignoring case
ContainsIgnoringCase(s, sub) ==
    \E off \in 0..(Len(s) - Len(sub)) :
        \A k \in 1..Len(sub) : SameLetter(s[off + k], sub[k])

ExcludedCompany(doc, job) ==
    /\ doc.excludeCompanies # None
    /\ \E k \in DOMAIN doc.excludeCompanies[1] :
          ContainsIgnoringCase(job.company, doc.excludeCompanies[1][k])

\* C7: no apply attempt is made for a listing whose company contains, ignoring
\* case, an excluded-company substring of the session
NoApplyForExcluded ==
    \A sid \in DOMAIN ops :
        \A i \in DOMAIN ops[sid] :
            ops[sid][i].op = "apply"
                => ~ExcludedCompany(sessions[sid], ops[sid][i].job[1])

\* a search returned a listing that only case folding shows to be excluded,
\* and the apply loop has run over that result to the end of the task
ExcludedPassedOverWitness ==
    \E sid \in DOMAIN ops :
        /\ tasks[sid].pc = "done"
        /\ sessions[sid].status = "completed"
        /\ \E i \in DOMAIN ops[sid] :
              /\ ops[sid][i].op = "search"
              /\ \E k \in DOMAIN ops[sid][i].found :
                    /\ ExcludedCompany(sessions[sid], ops[sid][i].found[k])
                    /\ ~isExcludedCaseSensitive(sessions[sid].excludeCompanies,
                                                ops[sid][i].found[k])

JobStatusOf(doc, url) ==
    {doc.jobs[i].status : i \in {j \in DOMAIN doc.jobs : doc.jobs[j].url = url}}

\* C8: when the apply loop passes over a listing of an excluded company, the
\* listing's FoundJob status is skipped, applicationsSkipped has grown by 1 and
\* one log entry has been appended
ExcludedListingMarkedSkipped ==
    [][\A sid \in DOMAIN tasks :
          LET t == tasks[sid]
          IN  ( /\ t.pc = "exclude"
                /\ ExcludedCompany(sessions[sid], t.jobListings[t.ji])
                /\ tasks'[sid].pc = "job_check" )
              => /\ JobStatusOf(sessions'[sid], t.jobListings[t.ji].url) = {"skipped"}
                 /\ sessions'[sid].applicationsSkipped
                        = sessions[sid].applicationsSkipped + 1
                 /\ Len(sessions'[sid].logs) = Len(sessions[sid].logs) + 1]_vars

ListingAt(company) == CHOOSE l \in Listings : l.company = company

SearchesOf(sid, board) ==
    SelectSeq(ops[sid], LAMBDA o : o.op = "search" /\ o.board = board)

\* the run of C9: one title, one location, BadCorp excluded, LinkedIn returns
\* one listing at BadCorp, Indeed one at GoodCorp, nothing throws, every apply
\* attempt succeeds, no stop request, and the task has ended
ScenarioRun(sid) ==
    /\ tasks[sid].pc = "done"
    /\ Len(sessions[sid].jobTitles) = 1
    /\ Len(sessions[sid].locations) = 1
    /\ sessions[sid].excludeCompanies = Some(<<BadCorp>>)
    /\ sessions[sid].userId \in profiles
    /\ ~StopPersisted(sessions[sid])
    /\ Len(SearchesOf(sid, "LinkedIn")) = 1
    /\ SearchesOf(sid, "LinkedIn")[1].found = <<ListingAt(BadCorp)>>
    /\ Len(SearchesOf(sid, "Indeed")) = 1
    /\ SearchesOf(sid, "Indeed")[1].found = <<ListingAt(GoodCorp)>>
    /\ \A i \in DOMAIN ops[sid] : ops[sid][i].result \in {"ok", "applied"}

\* C9: the scenario ends completed with jobsFound 2, applicationsSubmitted 1,
\* applicationsSkipped 1 and job statuses skipped, applied
ScenarioFinalState ==
    \A sid \in DOMAIN sessions :
        ScenarioRun(sid)
            => /\ sessions[sid].status = "completed"
               /\ sessions[sid].jobsFound = 2
               /\ sessions[sid].applicationsSubmitted = 1
               /\ sessions[sid].applicationsSkipped = 1
               /\ [i \in DOMAIN sessions[sid].jobs |-> sessions[sid].jobs[i].status]
                      = <<"skipped", "applied">>

MissingCriteria(body) ==
    \/ body.jobTitles = None \/ body.jobTitles[1] = <<>>
    \/ body.locations = None \/ body.locations[1] = <<>>

StartRejectsMissingCriteria ==
    [][(\E u \in Users, body \in StartBodies :
           /\ MissingCriteria(body)
           /\ Start(u, body.jobTitles, body.locations, body.excludeCompanies))
          => /\ response'.code = 400
             /\ sessions' = sessions
             /\ tasks' = tasks
             /\ ops' = ops
             /\ \A v \in Users :
                   findSessions(sessions', v) = findSessions(sessions, v)]_vars

\* a start was turned down for its criteria and the collection is empty
StartRejectedWitness ==
    /\ response = CriteriaRequired
    /\ sessions = <<>>
    /\ tasks = <<>>

\* C12: when the owner has no profile at the time the task of a running
\* session looks it up, the session ends with status error and an
\* error-severity "profile not found" entry, and the task has launched no
\* browser and begun no board operation
ProfileMissingEndsInError ==
    \A sid \in DOMAIN sessions :
        /\ tasks[sid].pc = "done"
        /\ tasks[sid].session # None
        /\ sessions[sid].userId \notin profiles
        => /\ sessions[sid].status = "error"
           /\ sessions[sid].logs[Len(sessions[sid].logs)]
                 = Log(ProfileNotFound, "error")
           /\ tasks[sid].browser = "none"
           /\ ops[sid] = <<>>

\* the task of an owner without profile has ended
ProfileMissingWitness ==
    \E sid \in DOMAIN sessions :
        /\ tasks[sid].pc = "done"
        /\ tasks[sid].session # None
        /\ sessions[sid].userId \notin profiles
        /\ sessions[sid].status = "error"

\* C13: a start with valid criteria is answered with the id of the inserted
\* session before the task has taken any step, and the answer does not
\* depend on whether the caller has a profile
StartAnswersBeforeTask ==
    [][\A u \in Users, body \in StartBodies :
          /\ ~MissingCriteria(body)
          /\ Start(u, body.jobTitles, body.locations, body.excludeCompanies)
          => /\ response' = Started(Len(sessions) + 1)
             /\ Len(sessions') = Len(sessions) + 1
             /\ sessions'[Len(sessions')].userId = u
             /\ sessions'[Len(sessions')].status = "running"
             /\ Len(sessions'[Len(sessions')].logs) = 1
             /\ tasks'[Len(sessions')] = NewTask
             /\ ops'[Len(sessions')] = <<>>]_vars

\* a caller without profile holds the id of its session and the task has
\* not taken its first step
StartedWithoutProfileWitness ==
    /\ response.code = 200
    /\ response.sessionId \in DOMAIN sessions
    /\ sessions[response.sessionId].userId \notin profiles
    /\ tasks[response.sessionId].pc = "init_log"

\* C14: a caller neither sees nor changes a session of another owner: its
\* status request is answered 404, its list holds exactly its own sessions,
\* its stop is answered 400, and none of the three changes the collection
\* or the task
OwnerIsolation ==
    [][/\ \A u \in Users, sid \in SessionIds :
             Status(u, sid)
                 => /\ IF sid \in DOMAIN sessions /\ sessions[sid].userId = u
                       THEN /\ response'.code = 200
                            /\ response'.sessions
                                  = <<[_id |-> sid, doc |-> sessions[sid]]>>
                       ELSE /\ response'.code = 404
                            /\ response'.sessions = <<>>
                    /\ UNCHANGED <<sessions, tasks, ops>>
       /\ \A u \in Users :
             List(u)
                 => /\ response'.code = 200
                    /\ \A i \in DOMAIN response'.sessions :
                          response'.sessions[i].doc.userId = u
                    /\ \A sid \in DOMAIN sessions :
                          sessions[sid].userId = u
                              <=> \E i \in DOMAIN response'.sessions :
                                     response'.sessions[i]._id = sid
                    /\ UNCHANGED <<sessions, tasks, ops>>
       /\ \A u \in Users, sid \in DOMAIN sessions :
             Stop(u, sid) /\ sessions[sid].userId # u
                 => /\ response'.code = 400
                    /\ UNCHANGED <<sessions, tasks, ops>>]_vars

\* a session exists and a status request for it was answered 404: the
\* caller was not its owner
ForeignStatusWitness ==
    /\ response = NotFound
    /\ sessions # <<>>
    /\ sessions[1].status = "running"

\* ---------------------------------------------------------------------
HasLog(doc, message) == \E i \in DOMAIN doc.logs : doc.logs[i].message = message

\* a cancellation check of the task has read a status other than running:
\* the check before a pair is followed by the "Session stopped by user" entry
StopObserved(sid) ==
    \/ tasks[sid].pc = "stopped_log"
    \/ HasLog(sessions[sid], "Session stopped by user")

\* C18: once a cancellation check has observed that the session is no longer
\* running, the task begins no further browser operation of any board
NoOpAfterStopObserved ==
    [][\A sid \in DOMAIN ops :
          StopObserved(sid) => ops'[sid] = ops[sid]]_vars

ApplyOps(sid) == {i \in DOMAIN ops[sid] : ops[sid][i].op = "apply"}

\* C19: within a session apply is attempted at most once per listing URL
ApplyOncePerUrl ==
    \A sid \in DOMAIN ops :
        \A i, j \in ApplyOps(sid) :
            ops[sid][i].job[1].url = ops[sid][j].job[1].url => i = j

\* C20: every apply attempt is accounted for once. With the attempts the
\* task has finished accounting for: applicationsSubmitted is the number of
\* attempts that applied and applicationsSkipped the number that found no
\* button or threw; there is one success entry per applied attempt, one
\* warning entry per missing button and one "Error applying" entry per
\* exception; the job carries the outcome of the last attempt on its URL; and
\* whatever the outcomes, every listing the loop has passed was attempted or
\* was of an excluded company
AllButLast(S) == IF S = {} THEN {} ELSE S \ {CHOOSE i \in S : \A j \in S : j <= i}
WithResult(sid, S, result) == {i \in S : ops[sid][i].result = result}
LogCount(doc, entry) ==
    Cardinality({i \in DOMAIN doc.logs : doc.logs[i] = entry})
SinceLastSearch(sid) ==
    {i \in ApplyOps(sid) :
        \A k \in DOMAIN ops[sid] : ops[sid][k].op = "search" => k < i}

ApplyAccounting ==
    \A sid \in DOMAIN sessions :
        LET t == tasks[sid]
            doc == sessions[sid]
            all == ApplyOps(sid)
            statused == IF t.pc = "job_status" THEN AllButLast(all) ELSE all
            logged == IF t.pc \in {"job_status", "outcome_log"}
                      THEN AllButLast(all) ELSE all
            counted == IF t.pc \in {"job_status", "outcome_log", "count"}
                       THEN AllButLast(all) ELSE all
        IN  /\ doc.applicationsSubmitted
                  = Cardinality(WithResult(sid, counted, "applied"))
            /\ doc.applicationsSkipped
                  = Cardinality(WithResult(sid, counted, "skipped"))
                    + Cardinality(WithResult(sid, counted, "error"))
            /\ \A outcome \in ApplyOutcomes :
                  LogCount(doc, OutcomeMessage(outcome))
                      = Cardinality(WithResult(sid, logged, outcome))
            /\ \A i \in statused :
                  (\A j \in statused :
                       ops[sid][j].job[1].url = ops[sid][i].job[1].url => j <= i)
                  => LET hits == {k \in DOMAIN doc.jobs :
                                     doc.jobs[k].url = ops[sid][i].job[1].url}
                     IN  /\ hits # {}
                         /\ \E k \in hits :
                               /\ \A h \in hits : k <= h
                               /\ doc.jobs[k].status = ops[sid][i].result
            /\ t.pc = "job_check"
                  => Cardinality(SinceLastSearch(sid))
                       = Cardinality({k \in 1..(t.ji - 1) :
                             ~isExcluded(t.session[1].excludeCompanies,
                                         t.jobListings[k])})

\* an attempt threw and the loop went on to attempt the next listing
AttemptAfterErrorWitness ==
    \E sid \in DOMAIN sessions :
        /\ tasks[sid].pc = "done"
        /\ sessions[sid].applicationsSkipped = 1
        /\ sessions[sid].applicationsSubmitted = 1
        /\ \E i, j \in ApplyOps(sid) :
              /\ i < j
              /\ ops[sid][i].result = "error"
              /\ ops[sid][j].result = "applied"

\* ---------------------------------------------------------------------
SearchesOn(sid, board) ==
    {i \in DOMAIN ops[sid] : ops[sid][i].op = "search" /\ ops[sid][i].board = board}

\* C17: a failed search of one (title, location) pair does not end the
\* board's run: when a session that nobody stopped has completed and both
\* boards' pages had opened, each board has searched every pair
EveryPairSearched ==
    \A sid \in DOMAIN sessions :
        /\ tasks[sid].pc = "done"
        /\ sessions[sid].status = "completed"
        /\ ~StopPersisted(sessions[sid])
        /\ \A i \in DOMAIN ops[sid] :
              ops[sid][i].op = "open" => ops[sid][i].result = "ok"
        => \A b \in DOMAIN Boards :
              Cardinality(SearchesOn(sid, Boards[b]))
                  = Len(sessions[sid].jobTitles) * Len(sessions[sid].locations)

\* ---------------------------------------------------------------------
\* C15: whatever rejects inside the task, the promise of the task never
\* rejects, and no task that has ended leaves its session running
TaskNeverRejects ==
    \A sid \in DOMAIN tasks :
        /\ tasks[sid].pc # "rejected"
        /\ tasks[sid].pc = "done" => sessions[sid].status # "running"

\* ---------------------------------------------------------------------
\* C16: once a status answer has shown the page a status other than running,
\* the page sends no further status request
NoPollAfterTerminal ==
    [][client.observed => client'.polls = client.polls]_vars

\* ---------------------------------------------------------------------
Completed(doc) ==
    /\ doc.status = "completed"
    /\ doc.logs[Len(doc.logs)] = Log("Auto-apply session completed", "info")

HasProfile(sid) ==
    IF sid \in DOMAIN sessions THEN sessions[sid].userId \in profiles ELSE FALSE
Launched(sid) ==
    IF sid \in DOMAIN tasks THEN tasks[sid].browser = "open" ELSE FALSE
StoppedOrCompleted(sid) ==
    IF sid \in DOMAIN sessions
    THEN StopPersisted(sessions[sid]) \/ Completed(sessions[sid])
    ELSE FALSE

HandlesFailure(t) ==
    \/ t.pc = "board_catch"
    \/ t.pc \in {"job_status", "outcome_log", "count"} /\ t.outcome = "error"

\* C22: handling an exception of a board's search or apply leaves the
\* status as it is; the exception is recorded as an entry of severity error,
\* and after the catch of the LinkedIn run the Indeed run starts
AdapterFailureKeepsStatus ==
    [][\A sid \in DOMAIN tasks :
          LET t == tasks[sid]
              doc == sessions[sid]
          IN  HandlesFailure(t) /\ tasks'[sid] # t
                  => /\ sessions'[sid].status = doc.status
                     /\ t.pc = "board_catch"
                           => /\ sessions'[sid].logs
                                    = Append(doc.logs,
                                             Log("Error in job search", "error"))
                              /\ t.board = 1
                                    => /\ tasks'[sid].board = 2
                                       /\ tasks'[sid].pc = "start_log"
                     /\ t.pc = "outcome_log"
                           => sessions'[sid].logs
                                 = Append(doc.logs,
                                          Log("Error applying", "error"))]_vars

\* the LinkedIn search threw, the session is running and the Indeed run
\* has opened its page
NextBoardAfterFailureWitness ==
    \E sid \in DOMAIN sessions :
        /\ sessions[sid].status = "running"
        /\ \E i, j \in DOMAIN ops[sid] :
              /\ i < j
              /\ ops[sid][i].board = "LinkedIn"
              /\ ops[sid][i].op = "search"
              /\ ops[sid][i].result = "throw"
              /\ ops[sid][j].board = "Indeed"

IsPrefix(a, b) == Len(a) <= Len(b) /\ SubSeq(b, 1, Len(a)) = a
Urls(jobs) == [i \in DOMAIN jobs |-> jobs[i].url]

BoardLeft(t, b) ==
    \/ b < t.board
    \/ b = t.board /\ t.pc \in {"complete", "close_browser", "done", "outer_catch"}

\* C26: when the run of a board has returned, the page it opened is closed
PageClosedOnReturn ==
    \A sid \in DOMAIN tasks :
        \A b \in DOMAIN Boards :
            BoardLeft(tasks[sid], b) => tasks[sid].page[b] # "open"

Criteria(doc) ==
    [userId |-> doc.userId, jobTitles |-> doc.jobTitles,
     locations |-> doc.locations, salaryRange |-> doc.salaryRange,
     excludeCompanies |-> doc.excludeCompanies,
     includeRemote |-> doc.includeRemote, startTime |-> doc.startTime]

\* C28: no step changes the owner, the criteria or the start time of a
\* session that exists
CriteriaNeverChange ==
    [][\A sid \in DOMAIN sessions :
          Criteria(sessions'[sid]) = Criteria(sessions[sid])]_vars

\* a session with a list of excluded companies has been stopped, read by a
\* status request and completed by its task
CriteriaKeptWitness ==
    \E sid \in DOMAIN sessions :
        /\ sessions[sid].excludeCompanies # None
        /\ sessions[sid].status = "completed"
        /\ StopPersisted(sessions[sid])
        /\ sessions[sid].jobs # <<>>
        /\ response.code = 200
        /\ response.sessions # <<>>

\* the stop request was persisted before the task's read of the session
StoppedBeforeRead(sid) ==
    /\ StopPersisted(sessions[sid])
    /\ tasks[sid].pc \notin {"init_log", "read_session"}
    /\ \/ tasks[sid].session = None
       \/ tasks[sid].session # None /\ tasks[sid].session[1].status # "running"

\* C29: when a stop request was persisted before the task read the session,
\* the task has ended without a browser and without a board operation, and
\* the status is stopped
StopBeforeReadEndsTask ==
    \A sid \in DOMAIN sessions :
        StoppedBeforeRead(sid)
            => /\ tasks[sid].pc = "done"
               /\ tasks[sid].browser = "none"
               /\ ops[sid] = <<>>
               /\ sessions[sid].status = "stopped"

\* the stop was persisted before the task's first write; the task wrote its
\* entry and ended at its read
StoppedBeforeReadWitness ==
    \E sid \in DOMAIN sessions :
        /\ StoppedBeforeRead(sid)
        /\ sessions[sid].userId \notin profiles
        /\ Len(sessions[sid].logs) = 3
        /\ sessions[sid].logs[2].message = "Auto-apply session stopped by user"

\* C27: the latest write to a session document set lastUpdateTime
LastUpdateTimeFollowsWrites ==
    \A sid \in DOMAIN sessions : sessions[sid].lastUpdateTime = "latest"

\* the task is past its try/finally: it has ended, or it is in the catch
Ended(t) == t.pc \in {"done", "rejected", "outer_catch"}

\* C30: a task that has left its try/finally has no browser it launched and
\* did not close (it launched none, or browser.close was called on it), and
\* a task about to launch has no browser yet
BrowserClosedAtEnd ==
    \A sid \in DOMAIN tasks :
        /\ Ended(tasks[sid]) => tasks[sid].browser # "open"
        /\ tasks[sid].pc = "launch" => tasks[sid].browser = "none"

\* the completion write rejected after both boards had run, and the task
\* ended with its browser closed
ClosedAfterFailedCompletionWitness ==
    \E sid \in DOMAIN tasks :
        /\ tasks[sid].pc = "done"
        /\ tasks[sid].browser = "closed"
        /\ sessions[sid].status = "error"
        /\ tasks[sid].board = 2
        /\ tasks[sid].page = <<"closed", "closed">>
        /\ ~HasLog(sessions[sid], "Auto-apply session completed")

\* the operations of one kind on one board, in the order they were made
OpsOf(sid, board, op) ==
    SelectSeq(ops[sid], LAMBDA o : o.board = board /\ o.op = op)

\* the pair searched k-th by a run over titles (outer) and locations (inner)
PairAt(doc, k) ==
    LET n == Len(doc.locations)
    IN  <<doc.jobTitles[((k - 1) \div n) + 1], doc.locations[((k - 1) % n) + 1]>>

BoardIndex(name) == CHOOSE b \in DOMAIN Boards : Boards[b] = name

\* the listings of a search that the apply loop attempts
Attempted(doc, found) ==
    SelectSeq(found, LAMBDA job : ~isExcluded(doc.excludeCompanies, job))

\* the jobs of the apply operations made after the i-th and before the j-th
\* operation
AppliedBetween(sid, i, j) ==
    LET idx == {k \in DOMAIN ops[sid] : i < k /\ k < j /\ ops[sid][k].op = "apply"}
        made == SelectSeq([k \in DOMAIN ops[sid] |-> <<k, ops[sid][k]>>],
                          LAMBDA e : e[1] \in idx)
    IN  [k \in DOMAIN made |-> made[k][2].job[1]]

\* C24: no LinkedIn operation follows an Indeed operation; the k-th search of
\* a board is for the k-th pair of titles (outer) and locations (inner); and
\* when a board's next search starts, every apply attempt for the listings of
\* its previous search has been made, under that previous pair
SearchOrder ==
    \A sid \in DOMAIN sessions :
        LET doc == sessions[sid]
            log == ops[sid]
        IN  /\ \A i, j \in DOMAIN log :
                  i < j => BoardIndex(log[i].board) <= BoardIndex(log[j].board)
            /\ \A b \in DOMAIN Boards :
                  LET searches == OpsOf(sid, Boards[b], "search")
                  IN  \A k \in DOMAIN searches :
                         /\ k <= Len(doc.jobTitles) * Len(doc.locations)
                         /\ <<searches[k].jobTitle[1], searches[k].location[1]>>
                               = PairAt(doc, k)
            /\ \A i, j \in DOMAIN log :
                  /\ i < j
                  /\ log[i].op = "search" /\ log[j].op = "search"
                  /\ log[i].board = log[j].board
                  /\ \A k \in DOMAIN log : i < k /\ k < j => log[k].op # "search"
                  => /\ AppliedBetween(sid, i, j) = Attempted(doc, log[i].found)
                     /\ \A k \in DOMAIN log :
                           i < k /\ k < j
                              => /\ log[k].jobTitle = log[i].jobTitle
                                 /\ log[k].location = log[i].location

\* both boards searched all four pairs, and an apply attempt was made under
\* a pair that is not the first
AllPairsInOrderWitness ==
    \E sid \in DOMAIN sessions :
        /\ Len(OpsOf(sid, "LinkedIn", "search")) = 4
        /\ Len(OpsOf(sid, "Indeed", "search")) = 4
        /\ \E i \in DOMAIN ops[sid] :
              /\ ops[sid][i].op = "apply"
              /\ ops[sid][i].jobTitle = Some("t2")
              /\ ops[sid][i].location = Some("l1")

\* every session but sid is as it was, with its task and its operations
OthersUntouched(sid) ==
    \A other \in DOMAIN sessions \ {sid} :
        /\ sessions'[other] = sessions[other]
        /\ tasks'[other] = tasks[other]
        /\ ops'[other] = ops[other]

\* C25: a start adds one document under a new id and one task for that id
\* and leaves every other session as it was; a step of a session's task
\* changes no other session; and a session's document is changed only by a
\* step of its own task or by a stop request that names it
SessionsIndependent ==
    [][/\ DOMAIN tasks' = DOMAIN sessions'
       /\ Len(sessions') # Len(sessions)
             => /\ sessions' = Append(sessions, sessions'[Len(sessions) + 1])
                /\ tasks' = Append(tasks, NewTask)
                /\ ops' = Append(ops, <<>>)
                /\ response'.sessionId = Len(sessions) + 1
       /\ \A sid \in DOMAIN tasks :
             tasks'[sid] # tasks[sid] => OthersUntouched(sid)
       /\ \A sid \in DOMAIN sessions :
             sessions'[sid] # sessions[sid]
                => /\ OthersUntouched(sid)
                   /\ tasks'[sid] # tasks[sid] \/ Stop(sessions[sid].userId, sid)]_vars

\* two sessions of one owner ran side by side: the first was stopped after
\* its task had begun its run, the second applied to a job and completed
TwoSessionsWitness ==
    /\ Len(sessions) = 2
    /\ sessions[1].userId = sessions[2].userId
    /\ sessions[1].status = "stopped"
    /\ HasLog(sessions[1], "Session stopped by user")
    /\ sessions[2].status = "completed"
    /\ sessions[2].applicationsSubmitted = 1
    /\ sessions[2].logs[2].message = "Initializing browser for job search"
    /\ tasks[1].pc # "done"

====
